---- MODULE Spec2Model ----
(***************************************************************************)
(* NumericalIntegrator (src/integrator.py): the quadrature rules, the      *)
(* error metrics and the convergence sweep, in exact rational arithmetic.  *)
(* A real number is a pair <<num, den>> in lowest terms with den > 0; a    *)
(* Gauss-Legendre node is a pair <<p, q>> of rationals standing for        *)
(* p + q*sqrt(d).  An optional sample sequence (None or an array) is a     *)
(* record [none, seq].                                                     *)
(***************************************************************************)
EXTENDS Integers, Sequences, FiniteSets, TLC

VARIABLES
    pc,           \* "call", "recursing", "return" or "RecursionError"
    op,           \* the method called
    args,         \* its arguments
    ret,          \* its return value, once pc = "return"
    ruleCalls,    \* calls of calc_method made by get_convergence_data
    stack,        \* pending recursive_step frames of adaptive_simpson, innermost first
    result,       \* sum of the recursive_step results returned so far
    eval_points   \* the eval_points list of adaptive_simpson

vars == <<pc, op, args, ret, ruleCalls, stack, result, eval_points>>

(***************************** bounds **************************************)
\* largest interval endpoint drawn for a and b
MaxEnd == 2
\* largest subinterval count n drawn for the fixed-node rules
MaxN == 4
\* largest degree of the integrands drawn for the fixed-node rules
MaxDeg == 4
\* longest sizes sequence drawn for the convergence sweep
MaxNs == 2
\* deepest recursive_step nesting before the interpreter raises RecursionError
\* (sys.getrecursionlimit() in CPython; the code itself sets no limit)
MaxDepth == 4

(************************ exact arithmetic *********************************)
Abs(i) == IF i < 0 THEN 0 - i ELSE i

RECURSIVE GCD(_, _)
GCD(i, j) == IF j = 0 THEN i ELSE GCD(j, i % j)

\* num/den in lowest terms, den > 0
Rat(num, den) ==
    IF num = 0 THEN <<0, 1>>
    ELSE IF den = 1 THEN <<num, 1>>
    ELSE LET g == GCD(Abs(num), Abs(den))
         IN  IF den < 0 THEN <<(0 - num) \div g, (0 - den) \div g>>
             ELSE <<num \div g, den \div g>>

Zero == <<0, 1>>
One == <<1, 1>>
R(i) == <<i, 1>>

RAdd(x, y) ==
    IF x[2] = y[2] THEN Rat(x[1] + y[1], x[2])
    ELSE LET g == GCD(x[2], y[2])
         IN  Rat(x[1] * (y[2] \div g) + y[1] * (x[2] \div g), (x[2] \div g) * y[2])

RNeg(x) == <<0 - x[1], x[2]>>
RSub(x, y) == RAdd(x, RNeg(y))

RMul(x, y) ==
    IF x[1] = 0 \/ y[1] = 0 THEN <<0, 1>>
    ELSE LET g1 == GCD(Abs(x[1]), y[2])
             g2 == GCD(Abs(y[1]), x[2])
         IN  <<(x[1] \div g1) * (y[1] \div g2), (x[2] \div g2) * (y[2] \div g1)>>

\* x / y; Python raises ZeroDivisionError when y is zero
RDiv(x, y) ==
    IF y[1] = 0 THEN "ZeroDivisionError"
    ELSE IF y[1] < 0 THEN RMul(x, <<0 - y[2], 0 - y[1]>>)
    ELSE RMul(x, <<y[2], y[1]>>)

RAbs(x) == <<Abs(x[1]), x[2]>>
RLe(x, y) == RSub(y, x)[1] >= 0

RECURSIVE RSum(_)
\* np.sum over an array
RSum(s) == IF s = <<>> THEN Zero ELSE RAdd(Head(s), RSum(Tail(s)))

(************************** Python values **********************************)
None == [none |-> TRUE, seq |-> <<>>]
Some(s) == [none |-> FALSE, seq |-> s]

\* s[start:stop:step] for step > 0, with Python's negative indices and clamping
PySlice(s, start, stop, step) ==
    LET len == Len(s)
        norm(i) == IF i < 0 THEN (IF i + len < 0 THEN 0 ELSE i + len)
                   ELSE (IF i > len THEN len ELSE i)
        lo == norm(start)
        hi == norm(stop)
        cnt == IF hi <= lo THEN 0 ELSE ((hi - lo) + (step - 1)) \div step
    IN  [k \in 1..cnt |-> s[lo + (k - 1) * step + 1]]

\* np.linspace(a, b, num=num) for num >= 2: a + i*step, the last sample set to b
linspace(a, b, num) ==
    LET step == RDiv(RSub(b, a), R(num - 1))
    IN  [i \in 1..num |-> IF i = num THEN b ELSE RAdd(a, RMul(R(i - 1), step))]

(************************** the integrands *********************************)
\* c[k+1] is the coefficient of x^k
Poly(c) == [kind |-> "poly", c |-> c]
\* the unit step at 0: a finite-valued, discontinuous integrand
StepFn == [kind |-> "step", c |-> <<>>]

RECURSIVE Horner(_, _)
\* c[1] + x*(c[2] + x*(...)) over integer coefficients
Horner(c, x) ==
    IF Len(c) = 0 THEN Zero ELSE RAdd(R(Head(c)), RMul(x, Horner(Tail(c), x)))

\* f(x) on a scalar
Eval(f, x) ==
    IF f.kind = "step" THEN (IF x[1] > 0 THEN One ELSE Zero)
    ELSE Horner(f.c, x)

\* f(x) on an array, element-wise
EvalAll(f, xs) == [i \in 1..Len(xs) |-> Eval(f, xs[i])]

Degree(f) ==
    LET nz == {k \in 1..Len(f.c) : f.c[k] # 0}
    IN  IF nz = {} THEN 0 ELSE (CHOOSE k \in nz : \A m \in nz : m <= k) - 1

\* ci*x^i + cj*x^j, as a coefficient list of length deg+1
Binomial(i, ci, j, cj, deg) ==
    Poly([k \in 1..(deg + 1) |->
            (IF k = i + 1 THEN ci ELSE 0) + (IF k = j + 1 THEN cj ELSE 0)])

Coefs == {0 - 1, 0, 1}

Polys(deg) ==
    {Binomial(i, ci, j, cj, deg) :
        i \in 0..deg, j \in 0..deg,
        ci \in Coefs, cj \in Coefs}

Endpoints == {R(i) : i \in (0 - 1)..MaxEnd}

(********************* exact value of the integral *************************)
\* sympy.integrate of a polynomial: c[k+1]/(k+1) is the coefficient of x^(k+1)
Antiderivative(f) ==
    [kind |-> "rpoly",
     c |-> [k \in 1..(Len(f.c) + 1) |-> IF k = 1 THEN Zero ELSE Rat(f.c[k - 1], k - 1)]]

RECURSIVE HornerR(_, _)
HornerR(c, x) ==
    IF Len(c) = 0 THEN Zero ELSE RAdd(Head(c), RMul(x, HornerR(Tail(c), x)))

\* f_int(x)
EvalInt(fint, x) == HornerR(fint.c, x)

get_true_area(fint, a, b) == RSub(EvalInt(fint, b), EvalInt(fint, a))

(************************ the fixed-node rules *****************************)
riemann_left(f, a, b, n) ==
    IF n <= 0 THEN <<Zero, None, None, None>>
    ELSE LET x == linspace(a, b, n + 1)
             x_left == PySlice(x, 0, 0 - 1, 1)
             y_left == EvalAll(f, x_left)
             total == RDiv(RMul(RSum(y_left), RSub(b, a)), R(n))
         IN  <<total, Some(x), Some(x_left), Some(y_left)>>

riemann_right(f, a, b, n) ==
    IF n <= 0 THEN <<Zero, None, None, None>>
    ELSE LET x == linspace(a, b, n + 1)
             x_right == PySlice(x, 1, Len(x), 1)
             y_right == EvalAll(f, x_right)
             total == RDiv(RMul(RSum(y_right), RSub(b, a)), R(n))
         IN  <<total, Some(x), Some(x_right), Some(y_right)>>

riemann_mid(f, a, b, n) ==
    IF n <= 0 THEN <<Zero, None, None, None>>
    ELSE LET x == linspace(a, b, n + 1)
             lo == PySlice(x, 0, 0 - 1, 1)
             hi == PySlice(x, 1, Len(x), 1)
             x_mid == [i \in 1..Len(lo) |-> RDiv(RAdd(lo[i], hi[i]), R(2))]
             y_mid == EvalAll(f, x_mid)
             total == RDiv(RMul(RSum(y_mid), RSub(b, a)), R(n))
         IN  <<total, Some(x), Some(x_mid), Some(y_mid)>>

\* trapezoid with empty arrays where the code returns None
trapezoid_EmptySamples(f, a, b, n) ==
    IF n <= 0 THEN <<Zero, Some(<<>>), Some(<<>>)>>
    ELSE LET x == linspace(a, b, n + 1)
             y == EvalAll(f, x)
             h == RDiv(RSub(b, a), R(n))
             total == RMul(RDiv(h, R(2)),
                           RAdd(RAdd(y[1], RMul(R(2), RSum(PySlice(y, 1, 0 - 1, 1)))),
                                y[Len(y)]))
         IN  <<total, Some(x), Some(y)>>

trapezoid(f, a, b, n) ==
    IF n <= 0 THEN <<Zero, None, None>>
    ELSE LET x == linspace(a, b, n + 1)
             y == EvalAll(f, x)
             h == RDiv(RSub(b, a), R(n))
             total == RMul(RDiv(h, R(2)),
                           RAdd(RAdd(y[1], RMul(R(2), RSum(PySlice(y, 1, 0 - 1, 1)))),
                                y[Len(y)]))
         IN  <<total, Some(x), Some(y)>>

\* simpson with the weights 4 and 2 exchanged
simpson_SwappedWeights(f, a, b, n) ==
    IF n <= 0 THEN <<Zero, None, None>>
    ELSE LET m == IF n % 2 # 0 THEN n + 1 ELSE n
             x == linspace(a, b, m + 1)
             y == EvalAll(f, x)
             h == RDiv(RSub(b, a), R(m))
             total == RMul(RDiv(h, R(3)),
                           RAdd(RAdd(RAdd(y[1], RMul(R(2), RSum(PySlice(y, 1, 0 - 1, 2)))),
                                     RMul(R(4), RSum(PySlice(y, 2, 0 - 2, 2)))),
                                y[Len(y)]))
         IN  <<total, Some(x), Some(y)>>

\* simpson without the increment of an odd n
simpson_NoIncrement(f, a, b, n) ==
    IF n <= 0 THEN <<Zero, None, None>>
    ELSE LET x == linspace(a, b, n + 1)
             y == EvalAll(f, x)
             h == RDiv(RSub(b, a), R(n))
             total == RMul(RDiv(h, R(3)),
                           RAdd(RAdd(RAdd(y[1], RMul(R(4), RSum(PySlice(y, 1, 0 - 1, 2)))),
                                     RMul(R(2), RSum(PySlice(y, 2, 0 - 2, 2)))),
                                y[Len(y)]))
         IN  <<total, Some(x), Some(y)>>

simpson(f, a, b, n) ==
    IF n <= 0 THEN <<Zero, None, None>>
    ELSE LET m == IF n % 2 # 0 THEN n + 1 ELSE n
             x == linspace(a, b, m + 1)
             y == EvalAll(f, x)
             h == RDiv(RSub(b, a), R(m))
             total == RMul(RDiv(h, R(3)),
                           RAdd(RAdd(RAdd(y[1], RMul(R(4), RSum(PySlice(y, 1, 0 - 1, 2)))),
                                     RMul(R(2), RSum(PySlice(y, 2, 0 - 2, 2)))),
                                y[Len(y)]))
         IN  <<total, Some(x), Some(y)>>

(********************* Gauss-Legendre quadrature ***************************)
\* numbers p + q*sqrt(d), p and q rational, d the radicand of the rule's nodes
QZero == <<Zero, Zero>>
QOne == <<One, Zero>>
QOfR(x) == <<x, Zero>>
QAdd(x, y) == <<RAdd(x[1], y[1]), RAdd(x[2], y[2])>>
QScale(r, x) == <<RMul(r, x[1]), RMul(r, x[2])>>
QMul(x, y, d) ==
    <<RAdd(RMul(x[1], y[1]), RMul(R(d), RMul(x[2], y[2]))),
      RAdd(RMul(x[1], y[2]), RMul(x[2], y[1]))>>

RECURSIVE QSum(_)
QSum(s) == IF Len(s) = 0 THEN QZero ELSE QAdd(Head(s), QSum(Tail(s)))

RECURSIVE QHorner(_, _, _)
QHorner(c, x, d) ==
    IF Len(c) = 0 THEN QZero
    ELSE QAdd(QOfR(R(Head(c))), QMul(x, QHorner(Tail(c), x, d), d))

\* f on an array of Gauss nodes
QEvalAll(f, xs, d) == [i \in 1..Len(xs) |-> QHorner(f.c, xs[i], d)]

\* np.polynomial.legendre.leggauss(n), nodes ascending, for the orders whose
\* nodes lie in a quadratic field: 0; -+1/sqrt(3); 0 and -+sqrt(3/5)
GaussOrders == {1, 2, 3}

leggauss(n) ==
    CASE n = 1 -> [d |-> 1, nodes |-> <<QZero>>, weights |-> <<R(2)>>]
      [] n = 2 -> [d |-> 3,
                   nodes |-> <<<<Zero, Rat(0 - 1, 3)>>, <<Zero, Rat(1, 3)>>>>,
                   weights |-> <<One, One>>]
      [] n = 3 -> [d |-> 15,
                   nodes |-> <<<<Zero, Rat(0 - 1, 5)>>, QZero, <<Zero, Rat(1, 5)>>>>,
                   weights |-> <<Rat(5, 9), Rat(8, 9), Rat(5, 9)>>]

\* 0.5 * (nodes + 1) * (b - a) + a
TransformNodes(nodes, a, b) ==
    [i \in 1..Len(nodes) |->
        QAdd(QScale(RSub(b, a), QScale(Rat(1, 2), QAdd(nodes[i], QOne))), QOfR(a))]

\* the weights mapped without the factor 0.5
TransformWeights_NotHalved(weights, a, b) ==
    [i \in 1..Len(weights) |-> RMul(weights[i], RSub(b, a))]

\* 0.5 * weights * (b - a)
TransformWeights(weights, a, b) ==
    [i \in 1..Len(weights) |-> RMul(RMul(Rat(1, 2), weights[i]), RSub(b, a))]

gaussian_quadrature(f, a, b, n) ==
    IF n <= 0 THEN <<QZero, None, None>>
    ELSE LET lg == leggauss(n)
             transformed_nodes == TransformNodes(lg.nodes, a, b)
             transformed_weights == TransformWeights(lg.weights, a, b)
             fx == QEvalAll(f, transformed_nodes, lg.d)
             total == QSum([i \in 1..n |-> QScale(transformed_weights[i], fx[i])])
         IN  <<total, Some(transformed_nodes), Some(fx)>>

(************************** error metrics **********************************)
Return(v) == [raised |-> "", value |-> v]
Raise(e) == [raised |-> e, value |-> <<>>]

\* get_error_metrics without the test of true_area
get_error_metrics_Unguarded(approx_area, true_area) ==
    LET abs_error == RAbs(RSub(approx_area, true_area))
    IN  IF RAbs(true_area) = Zero THEN Raise("ZeroDivisionError")
        ELSE Return(<<abs_error, RMul(RDiv(abs_error, RAbs(true_area)), R(100))>>)

get_error_metrics(approx_area, true_area) ==
    LET abs_error == RAbs(RSub(approx_area, true_area))
    IN  IF true_area # Zero
        THEN (IF RAbs(true_area) = Zero THEN Raise("ZeroDivisionError")
              ELSE Return(<<abs_error, RMul(RDiv(abs_error, RAbs(true_area)), R(100))>>))
        ELSE Return(<<abs_error, Zero>>)

(************************ the convergence sweep ****************************)
\* the exponent of the floor 1e-18
FloorExp == 18

\* <<num, den, e>> is num / (den * 10^e), num >= 0: an error, or the floor
Sci(x) == <<x[1], x[2], 0>>
Floor == <<1, 1, FloorExp>>

RECURSIVE LeP10(_, _, _)
\* i * 10^k <= j, for i, j, k >= 0
LeP10(i, j, k) ==
    IF k = 0 THEN i <= j
    ELSE IF i = 0 THEN TRUE
    ELSE IF i > j THEN FALSE
    ELSE LeP10(i * 10, j, k - 1)

RECURSIVE LtP10(_, _, _)
\* i * 10^k < j, for i, j, k >= 0
LtP10(i, j, k) ==
    IF k = 0 THEN i < j
    ELSE IF i = 0 THEN 0 < j
    ELSE IF i >= j THEN FALSE
    ELSE LtP10(i * 10, j, k - 1)

\* x <= y
SciLe(x, y) ==
    IF y[3] >= x[3] THEN LeP10(x[1] * y[2], y[1] * x[2], y[3] - x[3])
    ELSE ~LtP10(y[1] * x[2], x[1] * y[2], x[3] - y[3])

\* Python's max(x, y): y only when y > x
SciMax(x, y) == IF SciLe(y, x) THEN x ELSE y

KnownMethods ==
    {"Riemann Left", "Riemann Right", "Riemann Mid", "Trapezoidal", "Simpson"}

\* method_map[method_name](f, a, b, n)
calc_method(method_name, f, a, b, n) ==
    CASE method_name = "Riemann Left" -> riemann_left(f, a, b, n)
      [] method_name = "Riemann Right" -> riemann_right(f, a, b, n)
      [] method_name = "Riemann Mid" -> riemann_mid(f, a, b, n)
      [] method_name = "Trapezoidal" -> trapezoid(f, a, b, n)
      [] method_name = "Simpson" -> simpson(f, a, b, n)

\* get_convergence_data without the floor of the errors
get_convergence_data_NoFloor(f, a, b, f_int, ns, method_name) ==
    LET true_area == get_true_area(f_int, a, b)
        abs_err(n) == get_error_metrics(calc_method(method_name, f, a, b, n)[1],
                                        true_area).value[1]
    IN  IF method_name \notin KnownMethods THEN <<<<>>, <<>>>>
        ELSE <<ns, [i \in 1..Len(ns) |-> Sci(abs_err(ns[i]))]>>

\* get_convergence_data returning the sizes for an unknown rule name
get_convergence_data_UnknownKeepsSizes(f, a, b, f_int, ns, method_name) ==
    LET true_area == get_true_area(f_int, a, b)
        abs_err(n) == get_error_metrics(calc_method(method_name, f, a, b, n)[1],
                                        true_area).value[1]
    IN  IF method_name \notin KnownMethods THEN <<ns, <<>>>>
        ELSE <<ns, [i \in 1..Len(ns) |-> SciMax(Sci(abs_err(ns[i])), Floor)]>>

get_convergence_data(f, a, b, f_int, ns, method_name) ==
    LET true_area == get_true_area(f_int, a, b)
        abs_err(n) == get_error_metrics(calc_method(method_name, f, a, b, n)[1],
                                        true_area).value[1]
    IN  IF method_name \notin KnownMethods THEN <<<<>>, <<>>>>
        ELSE <<ns, [i \in 1..Len(ns) |-> SciMax(Sci(abs_err(ns[i])), Floor)]>>

\* how many times the loop of get_convergence_data calls calc_method
ConvergenceRuleCalls(ns, method_name) ==
    IF method_name \notin KnownMethods THEN 0 ELSE Len(ns)

(************************ adaptive Simpson *********************************)
Mid(a, b) == RDiv(RAdd(a, b), R(2))

\* the value simpson_step returns
simpson_step(f, a, b) ==
    LET c == Mid(a, b)
        h == RSub(b, a)
        fa == Eval(f, a)
        fb == Eval(f, b)
        fc == Eval(f, c)
    IN  RMul(RDiv(h, R(6)), RAdd(RAdd(fa, RMul(R(4), fc)), fb))

\* what simpson_step appends to eval_points
StepPoints(a, b) == <<a, b, Mid(a, b)>>

\* the acceptance test of recursive_step
Accepts(left, right, whole, tol) ==
    RLe(RAbs(RSub(RAdd(left, right), whole)), RMul(R(15), tol))

\* the value an accepted recursive_step returns
Refined(left, right, whole) ==
    RAdd(RAdd(left, right), RDiv(RSub(RAdd(left, right), whole), R(15)))

\* the tolerance handed on without halving
ChildTol_NotHalved(tol) == tol

\* the tolerance recursive_step hands to each half
ChildTol(tol) == RDiv(tol, R(2))

Frame(a, b, tol, whole, depth) ==
    [a |-> a, b |-> b, tol |-> tol, whole |-> whole, depth |-> depth]

RECURSIVE SortSet(_)
SortSet(S) ==
    IF S = {} THEN <<>>
    ELSE LET m == CHOOSE x \in S : \A y \in S : RLe(x, y)
         IN  <<m>> \o SortSet(S \ {m})

\* np.sort(np.unique(points))
SortUnique(points) == SortSet({points[i] : i \in 1..Len(points)})

(***************************** the calls ***********************************)
Sizes == (0 - 1)..MaxN

FixedRules == {"riemann_left", "riemann_right", "riemann_mid", "trapezoid", "simpson"}

RuleArgs ==
    {[f |-> f, a |-> a, b |-> b, n |-> n] :
        f \in Polys(MaxDeg), a \in Endpoints, b \in Endpoints, n \in Sizes}

GaussArgs ==
    {[f |-> f, a |-> a, b |-> b, n |-> n] :
        f \in Polys(5), a \in Endpoints, b \in Endpoints, n \in {0 - 1, 0} \cup GaussOrders}

Areas == {Rat(i, j) : i \in (0 - MaxEnd)..MaxEnd, j \in 1..2}

MetricArgs == {[approx_area |-> x, true_area |-> y] : x \in Areas, y \in Areas}

MethodNames == KnownMethods \cup {"Adaptive Simpson", "Gaussian Quadrature", "simpson"}

RECURSIVE SeqsUpTo(_, _)
\* the sequences over S of length at most k
SeqsUpTo(S, k) ==
    IF k = 0 THEN {<<>>}
    ELSE LET shorter == SeqsUpTo(S, k - 1)
         IN  shorter \cup {Append(q, x) : q \in shorter, x \in S}

SweepArgs ==
    {[f |-> f, a |-> Zero, b |-> b, ns |-> ns, method_name |-> m] :
        f \in Polys(2), b \in Endpoints, ns \in SeqsUpTo(0..2, MaxNs), m \in MethodNames}

Tols == {Rat(1, 16), Rat(1, 16384), Zero, Rat(0 - 1, 16)}

AdaptiveArgs ==
    {[f |-> f, a |-> a, b |-> b, tol |-> tol] :
        f \in Polys(4) \cup {StepFn}, a \in {Zero, One}, b \in {Zero, One}, tol \in Tols}

Idle ==
    /\ pc = "call"
    /\ ret = <<>>
    /\ ruleCalls = 0
    /\ stack = <<>>
    /\ result = Zero
    /\ eval_points = <<>>

Init ==
    /\ Idle
    /\ \/ op \in FixedRules /\ args \in RuleArgs
       \/ op = "gaussian_quadrature" /\ args \in GaussArgs
       \/ op = "get_error_metrics" /\ args \in MetricArgs
       \/ op = "get_convergence_data" /\ args \in SweepArgs

InitAdaptive ==
    /\ Idle
    /\ op = "adaptive_simpson"
    /\ args \in AdaptiveArgs

Returns(value) ==
    /\ ret' = value
    /\ pc' = "return"
    /\ UNCHANGED <<op, args, ruleCalls, stack, result, eval_points>>

RiemannLeft ==
    /\ pc = "call" /\ op = "riemann_left"
    /\ Returns(riemann_left(args.f, args.a, args.b, args.n))

RiemannRight ==
    /\ pc = "call" /\ op = "riemann_right"
    /\ Returns(riemann_right(args.f, args.a, args.b, args.n))

RiemannMid ==
    /\ pc = "call" /\ op = "riemann_mid"
    /\ Returns(riemann_mid(args.f, args.a, args.b, args.n))

Trapezoid ==
    /\ pc = "call" /\ op = "trapezoid"
    /\ Returns(trapezoid(args.f, args.a, args.b, args.n))

Simpson ==
    /\ pc = "call" /\ op = "simpson"
    /\ Returns(simpson(args.f, args.a, args.b, args.n))

GaussianQuadrature ==
    /\ pc = "call" /\ op = "gaussian_quadrature"
    /\ Returns(gaussian_quadrature(args.f, args.a, args.b, args.n))

GetErrorMetrics ==
    /\ pc = "call" /\ op = "get_error_metrics"
    /\ Returns(get_error_metrics(args.approx_area, args.true_area))

GetConvergenceData ==
    /\ pc = "call" /\ op = "get_convergence_data"
    /\ ret' = get_convergence_data(args.f, args.a, args.b, Antiderivative(args.f),
                                   args.ns, args.method_name)
    /\ ruleCalls' = ConvergenceRuleCalls(args.ns, args.method_name)
    /\ pc' = "return"
    /\ UNCHANGED <<op, args, stack, result, eval_points>>

\* adaptive_simpson up to its call of recursive_step: the baseline estimate
AdaptiveStart ==
    /\ pc = "call" /\ op = "adaptive_simpson"
    /\ eval_points' = StepPoints(args.a, args.b)
    /\ stack' = <<Frame(args.a, args.b, args.tol,
                        simpson_step(args.f, args.a, args.b), 1)>>
    /\ pc' = "recursing"
    /\ UNCHANGED <<op, args, ret, ruleCalls, result>>

\* one execution of the body of recursive_step, for the innermost pending call
RecursiveStep ==
    /\ pc = "recursing" /\ stack # <<>>
    /\ LET fr == Head(stack)
           c == Mid(fr.a, fr.b)
           left == simpson_step(args.f, fr.a, c)
           right == simpson_step(args.f, c, fr.b)
       IN  /\ eval_points' = eval_points \o StepPoints(fr.a, c) \o StepPoints(c, fr.b)
           /\ IF Accepts(left, right, fr.whole, fr.tol)
              THEN /\ result' = RAdd(result, Refined(left, right, fr.whole))
                   /\ stack' = Tail(stack)
                   /\ pc' = pc
              ELSE IF fr.depth >= MaxDepth
              THEN /\ pc' = "RecursionError"
                   /\ UNCHANGED <<stack, result>>
              ELSE /\ stack' = <<Frame(fr.a, c, ChildTol(fr.tol), left, fr.depth + 1),
                                 Frame(c, fr.b, ChildTol(fr.tol), right, fr.depth + 1)>>
                                \o Tail(stack)
                   /\ pc' = pc
                   /\ UNCHANGED result
    /\ UNCHANGED <<op, args, ret, ruleCalls>>

\* adaptive_simpson after recursive_step has returned
AdaptiveReturn ==
    /\ pc = "recursing" /\ stack = <<>>
    /\ LET unique_points == SortUnique(eval_points)
       IN  ret' = <<result, unique_points, EvalAll(args.f, unique_points)>>
    /\ pc' = "return"
    /\ UNCHANGED <<op, args, ruleCalls, stack, result, eval_points>>

Next ==
    \/ RiemannLeft
    \/ RiemannRight
    \/ RiemannMid
    \/ Trapezoid
    \/ Simpson
    \/ GaussianQuadrature
    \/ GetErrorMetrics
    \/ GetConvergenceData

NextAdaptive ==
    \/ AdaptiveStart
    \/ RecursiveStep
    \/ AdaptiveReturn

Spec == Init /\ [][Next]_vars

SpecAdaptive == InitAdaptive /\ [][NextAdaptive]_vars

(***************************************************************************)
(* The claims.  Spec: one call of a fixed-node rule, of the Gaussian rule, *)
(* of get_error_metrics or of get_convergence_data.  SpecAdaptive: one     *)
(* call of adaptive_simpson, one recursive_step body at a time.            *)
(***************************************************************************)
Returned(name) == pc = "return" /\ op = name

\* the exact integral of the polynomial args.f over [args.a, args.b]
ExactArea == get_true_area(Antiderivative(args.f), args.a, args.b)

\* C1: every rule called with n <= 0 returns approximation 0 and None for
\* every sample sequence: absent, not empty, and no error.
C1_NonPositiveCountYieldsZeroAndNone ==
    (pc = "return" /\ op \in FixedRules \cup {"gaussian_quadrature"} /\ args.n <= 0) =>
        /\ ret[1] = (IF op = "gaussian_quadrature" THEN <<<<0, 1>>, <<0, 1>>>> ELSE <<0, 1>>)
        /\ Len(ret) = (IF op \in {"riemann_left", "riemann_right", "riemann_mid"}
                       THEN 4 ELSE 3)
        /\ \A k \in 2..Len(ret) : ret[k].none /\ ret[k] # Some(<<>>)

C1_Witness ==
    /\ Returned("trapezoid")
    /\ args.n = 0
    /\ args.a # args.b
    /\ ret = <<Zero, None, None>>

\* C2: for a polynomial of degree <= 3 and an even n >= 2, simpson returns the
\* exact integral F(b) - F(a), and that value is (h/3)*(y[0] + 4*(sum of the
\* odd-indexed interior ordinates) + 2*(sum of the even-indexed interior
\* ordinates) + y[n]).
C2_SimpsonExactForCubics ==
    (Returned("simpson") /\ args.n >= 2 /\ args.n % 2 = 0 /\ Degree(args.f) <= 3) =>
        LET y == ret[3].seq
            n == args.n
            h == RDiv(RSub(args.b, args.a), R(n))
            odd == RSum([k \in 1..(n \div 2) |-> y[2 * k]])
            even == RSum([k \in 1..((n \div 2) - 1) |-> y[2 * k + 1]])
        IN  /\ ret[1] = ExactArea
            /\ ret[1] = RMul(RDiv(h, R(3)),
                             RAdd(RAdd(y[1], RMul(R(4), odd)),
                                  RAdd(RMul(R(2), even), y[n + 1])))

C2_Witness ==
    /\ Returned("simpson")
    /\ args.n = 4
    /\ Degree(args.f) = 3
    /\ args.a = R(0 - 1) /\ args.b = R(2)
    /\ ret[1] = ExactArea
    /\ ret[1] # Zero

\* C3: for n >= 1 nodes and a polynomial of degree <= 2n-1, gaussian_quadrature
\* returns the exact integral over [a,b] (checked for n = 1, 2, 3, whose nodes
\* are 0, -+1/sqrt(3), -+sqrt(3/5), in exact arithmetic).
C3_GaussExactUpToDegree2nMinus1 ==
    (Returned("gaussian_quadrature") /\ args.n >= 1
        /\ Degree(args.f) <= 2 * args.n - 1) =>
        ret[1] = <<ExactArea, <<0, 1>>>>

C3_Witness ==
    /\ Returned("gaussian_quadrature")
    /\ args.n = 3
    /\ Degree(args.f) = 5
    /\ args.a = Zero /\ args.b = R(2)
    /\ ret[1] = <<ExactArea, Zero>>
    /\ ret[1] # QZero

\* C4: for an odd n >= 1, simpson returns what simpson returns for n+1: the
\* same approximation, the same grid of n+2 breakpoints, the same ordinates.
C4_OddCountUsesNextEven ==
    (Returned("simpson") /\ args.n >= 1 /\ args.n % 2 = 1) =>
        /\ ret = simpson(args.f, args.a, args.b, args.n + 1)
        /\ ~ret[2].none /\ Len(ret[2].seq) = args.n + 2
        /\ ~ret[3].none /\ Len(ret[3].seq) = args.n + 2

C4_Witness ==
    /\ Returned("simpson")
    /\ args.n = 3
    /\ args.a # args.b
    /\ Len(ret[2].seq) = 5
    /\ ret[1] # Zero

\* C5: for a known rule name, get_convergence_data returns the sizes as given
\* and as many errors; errors[i] is the absolute error of the rule at sizes[i],
\* or 1e-18 when that is larger, so every error is at least 1e-18.
C5_SweepErrorsAlignedAndFloored ==
    (Returned("get_convergence_data")
        /\ args.method_name \in {"Riemann Left", "Riemann Right", "Riemann Mid",
                                  "Trapezoidal", "Simpson"}) =>
        /\ ret[1] = args.ns
        /\ Len(ret[2]) = Len(ret[1])
        /\ \A i \in 1..Len(ret[2]) :
              LET approx == calc_method(args.method_name, args.f, args.a, args.b,
                                        args.ns[i])[1]
                  err == Sci(RAbs(RSub(approx, ExactArea)))
              IN  /\ ret[2][i] = (IF SciLe(<<1, 1, 18>>, err) THEN err ELSE <<1, 1, 18>>)
                  /\ SciLe(<<1, 1, 18>>, ret[2][i])
                  /\ ret[2][i][1] > 0

C5_Witness ==
    /\ Returned("get_convergence_data")
    /\ args.method_name = "Trapezoidal"
    /\ Len(ret[2]) = 2
    /\ ret[2][1] = Floor
    /\ ret[2][2] # Floor

\* C6: for a rule name outside the five known names, get_convergence_data
\* returns two empty sequences and evaluates no rule.
C6_UnknownRuleYieldsEmpty ==
    (Returned("get_convergence_data")
        /\ args.method_name \notin {"Riemann Left", "Riemann Right", "Riemann Mid",
                                     "Trapezoidal", "Simpson"}) =>
        /\ ret = <<<<>>, <<>>>>
        /\ ruleCalls = 0

C6_Witness ==
    /\ Returned("get_convergence_data")
    /\ args.method_name = "Gaussian Quadrature"
    /\ Len(args.ns) = 2
    /\ ret = <<<<>>, <<>>>>

\* C7: get_error_metrics raises nothing and returns |approx - exact| with
\* 100*|approx - exact|/|exact| when exact # 0, and with 0 when exact = 0.
C7_ErrorMetrics ==
    Returned("get_error_metrics") =>
        /\ ret.raised = ""
        /\ ret.value[1] = RAbs(RSub(args.approx_area, args.true_area))
        /\ IF args.true_area[1] # 0
           THEN ret.value[2] =
                    RDiv(RMul(R(100), RAbs(RSub(args.approx_area, args.true_area))),
                         RAbs(args.true_area))
           ELSE ret.value[2] = <<0, 1>>

C7_Witness ==
    /\ Returned("get_error_metrics")
    /\ args.true_area = Zero
    /\ args.approx_area # Zero
    /\ ret.value = <<RAbs(args.approx_area), Zero>>

\* C8: adaptive_simpson called with tol <= 0 fails with InvalidArgument: it
\* neither enters the recursion nor returns a result.
C8_NonPositiveTolRejected ==
    (op = "adaptive_simpson" /\ args.tol[1] <= 0) => pc \in {"call", "InvalidArgument"}

\* C9: for every positive tol, adaptive_simpson terminates with every branch of
\* recursive_step accepted: the recursion never outgrows the interpreter.
C9_PositiveTolTerminates ==
    (op = "adaptive_simpson" /\ args.tol[1] > 0) => pc # "RecursionError"

\* C10: the baseline of the top-level recursive_step is the Simpson estimate
\* over [a,b]; a recursive_step on [a,b] with baseline whole takes the 3-point
\* Simpson estimates left over [a,c] and right over [c,b], c the midpoint, and
\* either returns left + right + (left + right - whole)/15, when
\* |left + right - whole| <= 15*tol, or else the sum of recursive_step on [a,c]
\* (tolerance tol/2, baseline left) and on [c,b] (tolerance tol/2, baseline
\* right); adaptive_simpson returns the sum of the accepted values.
Simpson3(u, v) ==
    RMul(RDiv(RSub(v, u), R(6)),
         RAdd(Eval(args.f, u),
              RAdd(RMul(R(4), Eval(args.f, RDiv(RAdd(u, v), R(2)))), Eval(args.f, v))))

C10_Baseline ==
    (pc = "call" /\ pc' = "recursing") =>
        stack' = <<[a |-> args.a, b |-> args.b, tol |-> args.tol,
                    whole |-> Simpson3(args.a, args.b), depth |-> 1]>>

C10_Step ==
    (pc = "recursing" /\ stack # <<>> /\ pc' = "recursing") =>
        LET fr == Head(stack)
            c == RDiv(RAdd(fr.a, fr.b), R(2))
            left == Simpson3(fr.a, c)
            right == Simpson3(c, fr.b)
            delta == RSub(RAdd(left, right), fr.whole)
            half == RDiv(fr.tol, R(2))
        IN  IF RLe(RAbs(delta), RMul(R(15), fr.tol))
            THEN /\ result' = RAdd(result, RAdd(RAdd(left, right), RDiv(delta, R(15))))
                 /\ stack' = Tail(stack)
            ELSE /\ result' = result
                 /\ stack' = <<[a |-> fr.a, b |-> c, tol |-> half, whole |-> left,
                                depth |-> fr.depth + 1],
                               [a |-> c, b |-> fr.b, tol |-> half, whole |-> right,
                                depth |-> fr.depth + 1]>> \o Tail(stack)

C10_Result ==
    (pc = "recursing" /\ pc' = "return") => (stack = <<>> /\ ret'[1] = result)

\* C10: every step of adaptive_simpson is the baseline, an accepted
\* recursive_step or a split recursive_step as described above.
C10_RecursiveStepContract == [][C10_Baseline /\ C10_Step /\ C10_Result]_vars

C10_Witness ==
    /\ Returned("adaptive_simpson")
    /\ args.tol[1] > 0
    /\ args.a = Zero /\ args.b = One
    /\ Len(ret[2]) = 9
    /\ ret[1] = get_true_area(Antiderivative(args.f), args.a, args.b)

====
